---- MODULE Spec2Model ----
(***************************************************************************)
(* Model of layout21tetris/src/cell.rs: the multi-view Cell container, the *)
(* Layout mutation surface (assign, cut, net/at), and Instance geometry    *)
(* over a lock-guarded shared Cell pointer.                                *)
(***************************************************************************)
EXTENDS Integers, Sequences, FiniteSets, TLC

VARIABLES
    cell,        \* the Cell under construction/query (Spec), or the Cell behind Ptr<Cell>
    lastAdded,   \* history: per view kind, the view most recently given to the Cell
    ret,         \* the last call: its name, its arguments and what it returned
    layout,      \* the Layout being edited (SpecLayout)
    handle,      \* the live NetHandle borrowing `layout`, if any
    chain,       \* history: assignments at net(), and the .at() arguments since
    inst,        \* the Instance whose geometry is queried (SpecInst)
    poisoned,    \* the RwLocks (by name) that a panicking writer has poisoned
    aborted,     \* TRUE once a panic has unwound the calling thread
    lock,        \* SpecConc: the RwLock of the shared Cell: readers, writer
    rd,          \* SpecConc: per reader thread, its position in Instance::boundbox
    wr,          \* SpecConc: the writer thread's position
    versions     \* history: every value the shared Cell has had

vars == <<cell, lastAdded, ret, layout, handle, chain, inst, poisoned, aborted,
          lock, rd, wr, versions>>

-----------------------------------------------------------------------------
(* Bounds and sample inputs *)

\* largest metal-layer count a view payload carries
MaxMetals == 2
\* longest view list handed to from_views
MaxViews == 2
\* most records (assignments plus cuts) a Layout accumulates
MaxRecords == 3
\* instance origins range over -MaxCoord..MaxCoord on each axis
MaxCoord == 1
\* most add_view calls the writer thread makes
MaxWrites == 2

\* Outline extents (xmax, ymax) of the sample view payloads
Outlines == {<<4, 6>>, <<5, 7>>}
CellNames == {"inv", "top"}
BundleNames == {"inv", "nand"}

-----------------------------------------------------------------------------
(* Option and Result values *)

None == [tag |-> "None"]
Some(v) == [tag |-> "Some", val |-> v]
Ok(v) == [tag |-> "Ok", val |-> v]
Err(e) == [tag |-> "Err", err |-> e]
\* LayoutError::Validation
Validation == "Validation"
\* the LayoutError a PoisonError converts into under `?`
PoisonError == "PoisonError"
\* the LayoutError of an unresolved relative placement
Unresolved == "Unresolved"
Unit == "()"

-----------------------------------------------------------------------------
(* View payloads *)

\* Layout::new: the four lists start empty
Layout_new(name, metals, outl) ==
    [kind |-> "Layout", name |-> name, metals |-> metals, outline |-> outl,
     instances |-> <<>>, assignments |-> <<>>, cuts |-> <<>>, places |-> <<>>]

\* interface::Bundle: a name, no outline and no metal count
Bundles == {[kind |-> "Interface", name |-> n] : n \in BundleNames}

\* abs::Abstract
Abstracts ==
    {[kind |-> "Abstract", name |-> "inv", outline |-> o, metals |-> m] :
        o \in Outlines, m \in 0..MaxMetals}

Layouts == {Layout_new("inv", m, o) : m \in 0..MaxMetals, o \in Outlines}

\* RawLayoutPtr; `cell` stands for the Ptr<raw::Cell>, named by the raw cell's name
RawLayoutPtrs ==
    {[kind |-> "RawLayoutPtr", outline |-> o, metals |-> m, lib |-> "rawlib",
      cell |-> "rawcell"] : o \in Outlines, m \in 0..MaxMetals}

\* enum CellView
CellViews == Bundles \cup Abstracts \cup Layouts \cup RawLayoutPtrs

Kinds == {"Interface", "Abstract", "Layout", "RawLayoutPtr"}

-----------------------------------------------------------------------------
(* Cell *)

\* #[derive(Default)] for Cell
Cell_default ==
    [name |-> "", interface |-> None, abs |-> None, layout |-> None, raw |-> None]

Cell_new(name) == [Cell_default EXCEPT !.name = name]

\* Faulty variant: a view is stored only into an empty slot (first write wins)
add_view_keep_first(c, view) ==
    CASE view.kind = "Interface" ->
            IF c.interface = None THEN [c EXCEPT !.interface = Some(view)] ELSE c
      [] view.kind = "Abstract" ->
            IF c.abs = None THEN [c EXCEPT !.abs = Some(view)] ELSE c
      [] view.kind = "Layout" ->
            IF c.layout = None THEN [c EXCEPT !.layout = Some(view)] ELSE c
      [] view.kind = "RawLayoutPtr" ->
            IF c.raw = None THEN [c EXCEPT !.raw = Some(view)] ELSE c

add_view(c, view) ==
    CASE view.kind = "Interface" -> [c EXCEPT !.interface = Some(view)]
      [] view.kind = "Abstract" -> [c EXCEPT !.abs = Some(view)]
      [] view.kind = "Layout" -> [c EXCEPT !.layout = Some(view)]
      [] view.kind = "RawLayoutPtr" -> [c EXCEPT !.raw = Some(view)]

RECURSIVE add_views(_, _)
\* the loop of from_views: add_view for each element, in order
add_views(c, views) ==
    IF views = <<>> THEN c
    ELSE add_views(add_view(c, Head(views)), Tail(views))

from_views(name, views) ==
    add_views([Cell_default EXCEPT !.name = name], views)

\* Faulty variant: the raw view is never consulted
Cell_outline_skip_raw(c) ==
    IF c.abs # None THEN Ok(c.abs.val.outline)
    ELSE IF c.layout # None THEN Ok(c.layout.val.outline)
    ELSE Err(Validation)

\* Faulty variant: the layout view is consulted before the abstract view
Cell_outline_layout_first(c) ==
    IF c.layout # None THEN Ok(c.layout.val.outline)
    ELSE IF c.abs # None THEN Ok(c.abs.val.outline)
    ELSE IF c.raw # None THEN Ok(c.raw.val.outline)
    ELSE Err(Validation)

Cell_outline(c) ==
    IF c.abs # None THEN Ok(c.abs.val.outline)
    ELSE IF c.layout # None THEN Ok(c.layout.val.outline)
    ELSE IF c.raw # None THEN Ok(c.raw.val.outline)
    ELSE Err(Validation)

\* Outline::xmax / Outline::ymax of a rectangular outline
xmax(o) == o[1]
ymax(o) == o[2]

Cell_boundbox_size(c) ==
    LET o == Cell_outline(c) IN
    IF o.tag = "Err" THEN o ELSE Ok(<<xmax(o.val), ymax(o.val)>>)

\* Faulty variant: an empty Cell reports zero metals instead of failing
Cell_metals_default_zero(c) ==
    IF c.abs # None THEN Ok(c.abs.val.metals)
    ELSE IF c.layout # None THEN Ok(c.layout.val.metals)
    ELSE IF c.raw # None THEN Ok(c.raw.val.metals)
    ELSE Ok(0)

Cell_metals(c) ==
    IF c.abs # None THEN Ok(c.abs.val.metals)
    ELSE IF c.layout # None THEN Ok(c.layout.val.metals)
    ELSE IF c.raw # None THEN Ok(c.raw.val.metals)
    ELSE Err(Validation)

\* Faulty variant: the top metal is reported as the count itself (off by one)
Cell_top_metal_off_by_one(c) ==
    LET m == Cell_metals(c) IN
    IF m.tag = "Err" THEN m
    ELSE IF m.val = 0 THEN Ok(None) ELSE Ok(Some(m.val))

Cell_top_metal(c) ==
    LET m == Cell_metals(c) IN
    IF m.tag = "Err" THEN m
    ELSE IF m.val = 0 THEN Ok(None) ELSE Ok(Some(m.val - 1))

\* Ptr::read on the lock named l: fails once the lock is poisoned
Ptr_read(l) == IF l \in poisoned THEN Err(PoisonError) ELSE Ok(l)

\* impl From<interface::Bundle> for Cell
Cell_from_Bundle(src) ==
    [Cell_default EXCEPT !.name = src.name, !.interface = Some(src)]

\* impl From<abs::Abstract> for Cell
Cell_from_Abstract(src) ==
    [Cell_default EXCEPT !.name = src.name, !.abs = Some(src)]

\* impl From<Layout> for Cell
Cell_from_Layout(src) ==
    [Cell_default EXCEPT !.name = src.name, !.layout = Some(src)]

\* impl From<RawLayoutPtr> for Cell, once the raw cell's lock has been read:
\* the Cell takes the raw cell's name
Cell_from_RawLayoutPtr(src) ==
    [Cell_default EXCEPT !.name = src.cell, !.raw = Some(src)]

\* impl From<CellView> for Cell: dispatch on the variant
Cell_from_CellView(src) ==
    CASE src.kind = "Interface" -> Cell_from_Bundle(src)
      [] src.kind = "Abstract" -> Cell_from_Abstract(src)
      [] src.kind = "Layout" -> Cell_from_Layout(src)
      [] src.kind = "RawLayoutPtr" -> Cell_from_RawLayoutPtr(src)

-----------------------------------------------------------------------------
(* Layout: assign, cut, and the NetHandle of net(...).at(...) *)

\* tracks::TrackIntersection { layer, track, at, relz }
TrackIntersection(layer, track, at, relz) ==
    [layer |-> layer, track |-> track, at |-> at, relz |-> relz]

\* Faulty variant: an assignment already in the list is not added again (deduplication)
assign_dedup(l, net, layer, track, at, relz) ==
    LET a == [net |-> net, at |-> TrackIntersection(layer, track, at, relz)] IN
    IF \E i \in 1..Len(l.assignments) : l.assignments[i] = a THEN l
    ELSE [l EXCEPT !.assignments = Append(@, a)]

\* Layout::assign
assign(l, net, layer, track, at, relz) ==
    [l EXCEPT !.assignments =
        Append(@, [net |-> net, at |-> TrackIntersection(layer, track, at, relz)])]

\* Layout::cut
cut(l, layer, track, at, relz) ==
    [l EXCEPT !.cuts = Append(@, TrackIntersection(layer, track, at, relz))]

\* Layout::net: the handle holds the name and the exclusive borrow of its parent
net(name) == [name |-> name, parent |-> "layout"]

\* Faulty variant: .at inserts at the front of the parent's assignments
NetHandle_at_front(h, l, layer, track, at, relz) ==
    [l EXCEPT !.assignments =
        <<[net |-> h.name, at |-> TrackIntersection(layer, track, at, relz)]>> \o @]

\* NetHandle::at: forwards to the parent's assign with the handle's name; yields
\* the parent Layout after the call (the handle itself is returned unchanged)
NetHandle_at(h, l, layer, track, at, relz) ==
    assign(l, h.name, layer, track, at, relz)

-----------------------------------------------------------------------------
(* Instance *)

\* Place::Abs(xy) and a relative placement not yet resolved
Abs(x, y) == [tag |-> "Abs", x |-> x, y |-> y]
Rel == [tag |-> "Rel"]

\* Place::abs(): the absolute location, or the failure of an unresolved one
Place_abs(loc) == IF loc.tag = "Abs" THEN Ok(loc) ELSE Err(Unresolved)

\* BoundBox::new(p0, p1)
BoundBox_new(p0, p1) == [p0 |-> p0, p1 |-> p1]

\* Instance::reflected(dir)
reflected(i, dir) ==
    CASE dir = "Horiz" -> i.reflect_horiz
      [] dir = "Vert" -> i.reflect_vert

\* Instance::boundbox_size, on the Cell c behind the instance's pointer
Instance_boundbox_size(i, c) ==
    LET guard == Ptr_read(i.cell) IN
    IF guard.tag = "Err" THEN guard ELSE Cell_boundbox_size(c)

\* Faulty variant: a reflected instance is mirrored within its own extent, so the
\* rectangle stays on the positive side of the origin
Instance_boundbox_center_mirror(i, c) ==
    LET loc == Place_abs(i.loc)
        guard == Ptr_read(i.cell)
        outl == Cell_outline(c)
    IN  IF loc.tag = "Err" THEN loc
        ELSE IF guard.tag = "Err" THEN guard
        ELSE IF outl.tag = "Err" THEN outl
        ELSE Ok(BoundBox_new(<<loc.val.x, loc.val.y>>,
                             <<loc.val.x + xmax(outl.val), loc.val.y + ymax(outl.val)>>))

\* Instance::boundbox, lines 340-348: the rectangle at origin loc for extents
\* (w, h) under the instance's two reflection flags
Rect(i, loc, w, h) ==
    LET x0 == IF i.reflect_horiz THEN loc.x - w ELSE loc.x
        x1 == IF i.reflect_horiz THEN loc.x ELSE loc.x + w
        y0 == IF i.reflect_vert THEN loc.y - h ELSE loc.y
        y1 == IF i.reflect_vert THEN loc.y ELSE loc.y + h
    IN  BoundBox_new(<<x0, y0>>, <<x1, y1>>)

\* Instance::boundbox (impl HasBoundBox), on the Cell c behind the pointer
Instance_boundbox(i, c) ==
    LET loc == Place_abs(i.loc)
        guard == Ptr_read(i.cell)
        outl == Cell_outline(c)
    IN  IF loc.tag = "Err" THEN loc
        ELSE IF guard.tag = "Err" THEN guard
        ELSE IF outl.tag = "Err" THEN outl
        ELSE Ok(Rect(i, loc.val, xmax(outl.val), ymax(outl.val)))

\* Faulty variant: the read guard is a temporary, dropped before the Cell is read
HoldRead_dropped(l, t) == l

\* `let cell = self.cell.read()?`: thread t holds the read guard until the call
\* returns
HoldRead(l, t) == [l EXCEPT !.readers = @ \cup {t}]

\* the text of impl Display for Instance, as its three interpolated parts
Instance_fmt(i, c) == <<"Instance", i.inst_name, c.name, i.loc>>

-----------------------------------------------------------------------------
(* Spec: one Cell, from construction through add_view and the queries *)

NoViews == [k \in Kinds |-> None]

\* the (kind, view) history recorded for a view list: the last view of each kind
LastOfKind(views, k) ==
    LET idx == {i \in 1..Len(views) : views[i].kind = k} IN
    IF idx = {} THEN None
    ELSE Some(views[CHOOSE i \in idx : \A j \in idx : j <= i])

ViewLists == UNION {[1..n -> CellViews] : n \in 0..MaxViews}

NoChain == [base |-> <<>>, ats |-> <<>>]

Idle ==
    /\ layout = None /\ handle = None /\ chain = NoChain /\ inst = None
    /\ lock = None /\ rd = <<>> /\ wr = None /\ versions = {}

IdleUnchanged == UNCHANGED <<layout, handle, chain, inst, lock, rd, wr, versions>>

Init ==
    /\ cell = None
    /\ lastAdded = NoViews
    /\ ret = [op |-> "start"]
    /\ poisoned = {}
    /\ aborted = FALSE
    /\ Idle

\* Cell::new(name)
New(name) ==
    /\ cell = None
    /\ ~aborted
    /\ cell' = Cell_new(name)
    /\ lastAdded' = NoViews
    /\ ret' = [op |-> "new"]
    /\ UNCHANGED <<poisoned, aborted>>
    /\ IdleUnchanged

\* Cell::from_views(name, views)
FromViews ==
    /\ cell = None
    /\ ~aborted
    /\ \E name \in CellNames, views \in ViewLists :
          /\ cell' = from_views(name, views)
          /\ lastAdded' = [k \in Kinds |-> LastOfKind(views, k)]
    /\ ret' = [op |-> "from_views"]
    /\ UNCHANGED <<poisoned, aborted>>
    /\ IdleUnchanged

\* impl From<CellView> for Cell: dispatch on the variant; the RawLayoutPtr
\* conversion reads the raw cell's name through its lock and unwraps the result
FromCellView(src) ==
    /\ cell = None
    /\ ~aborted
    /\ IF src.kind = "RawLayoutPtr" /\ Ptr_read(src.cell).tag = "Err"
       THEN /\ aborted' = TRUE
            /\ ret' = [op |-> "from", res |-> "panic"]
            /\ UNCHANGED <<cell, lastAdded>>
       ELSE /\ cell' = Cell_from_CellView(src)
            /\ lastAdded' = [NoViews EXCEPT ![src.kind] = Some(src)]
            /\ ret' = [op |-> "from", res |-> Unit]
            /\ UNCHANGED aborted
    /\ UNCHANGED poisoned
    /\ IdleUnchanged

\* Cell::add_view(view)
AddView(view) ==
    /\ cell # None
    /\ cell' = add_view(cell, view)
    /\ lastAdded' = [lastAdded EXCEPT ![view.kind] = Some(view)]
    /\ ret' = [op |-> "add_view", res |-> Unit]
    /\ UNCHANGED <<poisoned, aborted>>
    /\ IdleUnchanged

\* Cell::outline(&self)
Outline ==
    /\ cell # None
    /\ ret' = [op |-> "outline", res |-> Cell_outline(cell)]
    /\ UNCHANGED <<cell, lastAdded, poisoned, aborted>>
    /\ IdleUnchanged

\* Cell::boundbox_size(&self)
BoundboxSize ==
    /\ cell # None
    /\ ret' = [op |-> "boundbox_size", res |-> Cell_boundbox_size(cell)]
    /\ UNCHANGED <<cell, lastAdded, poisoned, aborted>>
    /\ IdleUnchanged

\* Cell::metals(&self)
Metals ==
    /\ cell # None
    /\ ret' = [op |-> "metals", res |-> Cell_metals(cell)]
    /\ UNCHANGED <<cell, lastAdded, poisoned, aborted>>
    /\ IdleUnchanged

\* Cell::top_metal(&self)
TopMetal ==
    /\ cell # None
    /\ ret' = [op |-> "top_metal", res |-> Cell_top_metal(cell)]
    /\ UNCHANGED <<cell, lastAdded, poisoned, aborted>>
    /\ IdleUnchanged

\* a thread holding the write guard of lock l panics: the lock is poisoned
WriterPanics(l) ==
    /\ ~aborted
    /\ l \notin poisoned
    /\ poisoned' = poisoned \cup {l}
    /\ ret' = [op |-> "writer_panic"]
    /\ UNCHANGED aborted
    /\ UNCHANGED <<cell, lastAdded, layout, handle, chain, inst, lock, rd, wr, versions>>

Next ==
    \/ \E name \in CellNames : New(name)
    \/ cell = None /\ WriterPanics("rawcell")
    \/ FromViews
    \/ \E src \in CellViews : FromCellView(src)
    \/ \E view \in CellViews : AddView(view)
    \/ Outline
    \/ BoundboxSize
    \/ Metals
    \/ TopMetal

Spec == Init /\ [][Next]_vars

-----------------------------------------------------------------------------
(* Properties of the Cell container, under Spec *)

\* the slot of Cell c that holds views of kind k
Slot(c, k) ==
    CASE k = "Interface" -> c.interface
      [] k = "Abstract" -> c.abs
      [] k = "Layout" -> c.layout
      [] k = "RawLayoutPtr" -> c.raw

Present(c) == {k \in Kinds : Slot(c, k) # None}

\* rank in the fixed order abstract > layout > raw (1 is the highest)
Rank(k) == CASE k = "Abstract" -> 1 [] k = "Layout" -> 2 [] k = "RawLayoutPtr" -> 3

Geometric == {"Abstract", "Layout", "RawLayoutPtr"}

\* the present view of the highest rank (defined when one of the three is present)
TopView(c) ==
    LET ks == Present(c) \cap Geometric IN
    Slot(c, CHOOSE k \in ks : \A j \in ks : Rank(k) <= Rank(j)).val

QueryOps == {"outline", "boundbox_size", "metals", "top_metal"}

\* C1: with two or more views present, outline() and metals() return the values
\* of the highest-priority present view (abstract > layout > raw), whatever any
\* lower-priority view holds.
C1_PriorityResolution ==
    (cell # None /\ Cardinality(Present(cell)) >= 2) =>
        /\ ret.op = "outline" => ret.res = Ok(TopView(cell).outline)
        /\ ret.op = "metals" => ret.res = Ok(TopView(cell).metals)
        /\ ret.op \in {"outline", "metals"} =>
              \A k \in Present(cell) \cap Geometric, v \in CellViews :
                  (v.kind = k /\ Slot(cell, k).val # TopView(cell)) =>
                      /\ Cell_outline(add_view(cell, v)) = Cell_outline(cell)
                      /\ Cell_metals(add_view(cell, v)) = Cell_metals(cell)

\* C1 witness: abstract and layout views that disagree, outline() answered from
\* the abstract view
C1_Witness ==
    /\ cell # None
    /\ cell.abs # None /\ cell.layout # None
    /\ cell.abs.val.outline = <<4, 6>> /\ cell.layout.val.outline = <<5, 7>>
    /\ ret.op = "outline" /\ ret.res = Ok(<<4, 6>>)

\* the top metal that corresponds to a metals count
TopOf(m) == IF m = 0 THEN None ELSE Some(m - 1)

\* what the queries return on a Cell whose only view is v
SingleViewAnswers(v) ==
    /\ ret.op = "outline" => ret.res = Ok(v.outline)
    /\ ret.op = "metals" => ret.res = Ok(v.metals)
    /\ ret.op = "top_metal" => ret.res = Ok(TopOf(v.metals))

\* C3 as stated: a Cell holding exactly one view, of any of the four kinds,
\* answers outline(), metals() and top_metal() successfully from that view.
C3_SingleViewAnyKind ==
    (cell # None /\ Cardinality(Present(cell)) = 1
        /\ ret.op \in {"outline", "metals", "top_metal"}) =>
        /\ ret.res.tag = "Ok"
        /\ \A k \in Present(cell) \cap Geometric : SingleViewAnswers(Slot(cell, k).val)

\* C3 amended: a Cell holding exactly one view of kind abstract, layout or raw
\* answers outline(), metals() and top_metal() successfully from that view; a
\* Cell whose only view is an interface fails each of them with Validation.
C3_SingleView ==
    (cell # None /\ Cardinality(Present(cell)) = 1
        /\ ret.op \in {"outline", "metals", "top_metal"}) =>
        /\ \A k \in Present(cell) \cap Geometric : SingleViewAnswers(Slot(cell, k).val)
        /\ Present(cell) = {"Interface"} => ret.res = Err(Validation)

\* C3 witness: a Cell holding only a raw view has answered top_metal()
C3_Witness ==
    /\ cell # None
    /\ Present(cell) = {"RawLayoutPtr"}
    /\ cell.raw.val.metals = 2
    /\ ret.op = "top_metal" /\ ret.res = Ok(Some(1))

\* C4: on a Cell with no views each of outline(), metals(), boundbox_size() and
\* top_metal() returns the Validation failure, and the query leaves the Cell
\* unchanged.
C4_EmptyCellFails ==
    [][(cell # None /\ Present(cell) = {} /\ ret'.op \in QueryOps) =>
          (ret'.res = Err(Validation) /\ cell' = cell)]_vars

\* C4 witness: an empty Cell has answered boundbox_size() with Validation
C4_Witness ==
    /\ cell # None
    /\ Present(cell) = {}
    /\ ret.op = "boundbox_size" /\ ret.res = Err(Validation)

\* C5: every slot holds exactly the most recently added view of its kind, or
\* nothing if none was added; add_view of one kind leaves the other three slots
\* and the name unchanged; a present slot never becomes absent.
C5_LastWriteWins ==
    /\ [](cell # None => \A k \in Kinds : Slot(cell, k) = lastAdded[k])
    /\ [][(cell # None) =>
            /\ \A k \in Kinds : Slot(cell, k) # None => Slot(cell', k) # None
            /\ ret'.op = "add_view" =>
                  /\ cell'.name = cell.name
                  /\ Cardinality({k \in Kinds : Slot(cell', k) # Slot(cell, k)}) <= 1]_vars

\* C5 witness: an abstract view was replaced by a different one
C5_Witness ==
    /\ cell # None
    /\ ret.op = "add_view"
    /\ cell.abs # None /\ cell.layout # None
    /\ lastAdded["Abstract"] = cell.abs
    /\ cell.abs.val.outline = <<5, 7>> /\ cell.abs.val.metals = 1
    /\ cell.name = "top"

\* C10: top_metal() is determined by metals(): None for 0, Some(k-1) for k > 0,
\* the same failure when metals() fails; the count used is that of the
\* highest-priority present view.
C10_TopMetalFromMetals ==
    (cell # None /\ ret.op = "top_metal") =>
        LET m == Cell_metals(cell) IN
        /\ m = Ok(0) => ret.res = Ok(None)
        /\ (m.tag = "Ok" /\ m.val > 0) => ret.res = Ok(Some(m.val - 1))
        /\ m.tag = "Err" => ret.res = m
        /\ Present(cell) \cap Geometric # {} => m = Ok(TopView(cell).metals)
        /\ Present(cell) \cap Geometric = {} => m = Err(Validation)

\* C10 witness: metals() is 2 by the abstract view, top_metal() answered Some(1)
C10_Witness ==
    /\ cell # None
    /\ cell.abs # None /\ cell.abs.val.metals = 2
    /\ cell.layout # None /\ cell.layout.val.metals = 0
    /\ ret.op = "top_metal" /\ ret.res = Ok(Some(1))

-----------------------------------------------------------------------------
(* SpecLayout: one Layout edited through assign, cut and net(...).at(...) *)

Nets == {"VDD", "VSS"}
\* sample (layer, track, at, relz) arguments
TrackArgs == {<<1, 3, 0, "Before">>, <<1, 4, 0, "After">>, <<2, 5, 10, "After">>}

Records(l) == Len(l.assignments) + Len(l.cuts)

LayoutFrame == UNCHANGED <<cell, lastAdded, inst, poisoned, aborted, lock, rd, wr, versions>>

InitLayout ==
    /\ layout \in Layouts
    /\ handle = None
    /\ chain = NoChain
    /\ ret = [op |-> "start"]
    /\ cell = None /\ lastAdded = NoViews /\ inst = None
    /\ poisoned = {} /\ aborted = FALSE
    /\ lock = None /\ rd = <<>> /\ wr = None /\ versions = {}

\* layout.assign(net, layer, track, at, relz); needs the Layout unborrowed
Assign(n, a) ==
    /\ handle = None
    /\ Records(layout) < MaxRecords
    /\ layout' = assign(layout, n, a[1], a[2], a[3], a[4])
    /\ ret' = [op |-> "assign", net |-> n, args |-> a, res |-> Unit]
    /\ UNCHANGED <<handle, chain>>
    /\ LayoutFrame

\* layout.cut(layer, track, at, relz); needs the Layout unborrowed
Cut(a) ==
    /\ handle = None
    /\ Records(layout) < MaxRecords
    /\ layout' = cut(layout, a[1], a[2], a[3], a[4])
    /\ ret' = [op |-> "cut", args |-> a, res |-> Unit]
    /\ UNCHANGED <<handle, chain>>
    /\ LayoutFrame

\* layout.net(name): creates the handle, which borrows the Layout exclusively
Net(n) ==
    /\ handle = None
    /\ handle' = Some(net(n))
    /\ chain' = [base |-> layout.assignments, ats |-> <<>>]
    /\ ret' = [op |-> "net", net |-> n]
    /\ UNCHANGED layout
    /\ LayoutFrame

\* handle.at(layer, track, at, relz): consumes and returns the handle
At(a) ==
    /\ handle # None
    /\ Records(layout) < MaxRecords
    /\ layout' = NetHandle_at(handle.val, layout, a[1], a[2], a[3], a[4])
    /\ chain' = [chain EXCEPT !.ats = Append(@, a)]
    /\ ret' = [op |-> "at", args |-> a, res |-> handle.val]
    /\ UNCHANGED handle
    /\ LayoutFrame

\* the end of the statement: the handle is dropped and the borrow ends
DropHandle ==
    /\ handle # None
    /\ handle' = None
    /\ chain' = NoChain
    /\ ret' = [op |-> "drop"]
    /\ UNCHANGED layout
    /\ LayoutFrame

NextLayout ==
    \/ \E n \in Nets, a \in TrackArgs : Assign(n, a)
    \/ \E a \in TrackArgs : Cut(a)
    \/ \E n \in Nets : Net(n)
    \/ \E a \in TrackArgs : At(a)
    \/ DropHandle

SpecLayout == InitLayout /\ [][NextLayout]_vars

\* the record a (layer, track, at, relz) argument tuple describes
Rec(a) == [layer |-> a[1], track |-> a[2], at |-> a[3], relz |-> a[4]]

\* C6: a chain layout.net(name).at(a1)...at(an) has appended exactly n Assign
\* records to the end of the assignments, in call order, each with the handle's
\* net name and the fields of its .at call; after every .at call the record is
\* already there, and the assignments from before the chain are an unchanged prefix.
C6_ChainAppends ==
    handle # None =>
        /\ Len(layout.assignments) = Len(chain.base) + Len(chain.ats)
        /\ SubSeq(layout.assignments, 1, Len(chain.base)) = chain.base
        /\ \A i \in 1..Len(chain.ats) :
              layout.assignments[Len(chain.base) + i] =
                  [net |-> handle.val.name, at |-> Rec(chain.ats[i])]

\* C6 witness: net("VDD").at(1,3,0,Before).at(1,4,0,After) after an earlier
\* assignment to VSS
C6_Witness ==
    /\ handle # None /\ handle.val.name = "VDD"
    /\ chain.base = <<[net |-> "VSS", at |-> Rec(<<2, 5, 10, "After">>)]>>
    /\ chain.ats = <<<<1, 3, 0, "Before">>, <<1, 4, 0, "After">>>>
    /\ Len(layout.assignments) = 3
    /\ ret.op = "at"

\* the Layout fields other than its two record lists
Rest(l) == <<l.name, l.metals, l.outline, l.instances, l.places>>

\* C9: cut appends exactly one record {layer, track, at, relz} to the end of the
\* cuts and changes nothing else; assign appends exactly one Assign record to
\* the end of the assignments and changes nothing else; neither fails, and
\* neither checks the new record against the ones already there.
C9_PureAppend ==
    [][/\ ret'.op = "cut" =>
            /\ layout'.cuts = Append(layout.cuts, Rec(ret'.args))
            /\ layout'.assignments = layout.assignments
            /\ Rest(layout') = Rest(layout)
            /\ ret'.res = Unit
       /\ ret'.op = "assign" =>
            /\ layout'.assignments =
                  Append(layout.assignments, [net |-> ret'.net, at |-> Rec(ret'.args)])
            /\ layout'.cuts = layout.cuts
            /\ Rest(layout') = Rest(layout)
            /\ ret'.res = Unit]_vars

\* C9 witness: the same assignment made twice and the same cut made twice, both
\* kept
C9_Witness ==
    /\ Len(layout.assignments) = 2 /\ layout.assignments[1] = layout.assignments[2]
    /\ layout.cuts = <<Rec(<<2, 5, 10, "After">>)>>
    /\ ret.op = "cut" /\ ret.args = <<2, 5, 10, "After">>

-----------------------------------------------------------------------------
(* SpecInst: one Instance of a shared Cell; the Cell's lock and the raw cell's
   lock may become poisoned by a writer that panics while holding them *)

Coords == (0 - MaxCoord)..MaxCoord

Places == {Abs(x, y) : x \in Coords, y \in Coords} \cup {Rel}

Instances ==
    {[inst_name |-> "i0", cell |-> "cell", loc |-> p, reflect_horiz |-> rh,
      reflect_vert |-> rv] : p \in Places, rh \in BOOLEAN, rv \in BOOLEAN}

\* the Cells an Instance refers to: built by from_views from abstract and
\* layout views of the sample outlines
InstViews == {v \in Abstracts \cup Layouts : v.metals = 0}

InstCells ==
    {from_views("inv", vs) : vs \in UNION {[1..n -> InstViews] : n \in 0..MaxViews}}

Locks == {"cell", "rawcell"}

InstFrame == UNCHANGED <<cell, lastAdded, layout, handle, chain, inst, lock, rd, wr, versions>>

InitInst ==
    /\ cell \in InstCells
    /\ inst \in Instances
    /\ poisoned = {}
    /\ aborted = FALSE
    /\ ret = [op |-> "start"]
    /\ lastAdded = NoViews /\ layout = None /\ handle = None /\ chain = NoChain
    /\ lock = None /\ rd = <<>> /\ wr = None /\ versions = {}

\* inst.reflected(dir)
Reflected(dir) ==
    /\ ~aborted
    /\ ret' = [op |-> "reflected", dir |-> dir, res |-> reflected(inst, dir)]
    /\ UNCHANGED <<poisoned, aborted>>
    /\ InstFrame

\* inst.boundbox_size()
InstBoundboxSize ==
    /\ ~aborted
    /\ ret' = [op |-> "inst_boundbox_size", res |-> Instance_boundbox_size(inst, cell)]
    /\ UNCHANGED <<poisoned, aborted>>
    /\ InstFrame

\* inst.boundbox()
Boundbox ==
    /\ ~aborted
    /\ ret' = [op |-> "boundbox", res |-> Instance_boundbox(inst, cell)]
    /\ UNCHANGED <<poisoned, aborted>>
    /\ InstFrame

\* format!("{}", inst): the read of the Cell's lock is unwrapped
Display ==
    /\ ~aborted
    /\ IF Ptr_read(inst.cell).tag = "Err"
       THEN /\ aborted' = TRUE
            /\ ret' = [op |-> "fmt", res |-> "panic"]
       ELSE /\ ret' = [op |-> "fmt", res |-> Ok(Instance_fmt(inst, cell))]
            /\ UNCHANGED aborted
    /\ UNCHANGED poisoned
    /\ InstFrame

\* Cell::from(raw): the read of the raw cell's lock is unwrapped
ConvertRaw(src) ==
    /\ ~aborted
    /\ IF Ptr_read(src.cell).tag = "Err"
       THEN /\ aborted' = TRUE
            /\ ret' = [op |-> "from", res |-> "panic"]
       ELSE /\ ret' = [op |-> "from", res |-> Ok(Cell_from_RawLayoutPtr(src))]
            /\ UNCHANGED aborted
    /\ UNCHANGED poisoned
    /\ InstFrame

NextInst ==
    \/ \E l \in Locks : WriterPanics(l)
    \/ \E dir \in {"Horiz", "Vert"} : Reflected(dir)
    \/ InstBoundboxSize
    \/ Boundbox
    \/ Display
    \/ \E src \in RawLayoutPtrs : ConvertRaw(src)

SpecInst == InitInst /\ [][NextInst]_vars

\* C2: with the placement resolved to (x, y) and the referenced Cell's outline
\* extents (w, h), boundbox() is [(x,y),(x+w,y+h)] unreflected, [(x-w,y),(x,y+h)]
\* reflected horizontally, [(x,y-h),(x+w,y)] reflected vertically and
\* [(x-w,y-h),(x,y)] with both; the horizontal flag decides only the x range
\* and the vertical flag only the y range.
C2_OriginPivotReflection ==
    (ret.op = "boundbox" /\ inst.loc.tag = "Abs" /\ "cell" \notin poisoned
        /\ Present(cell) \cap Geometric # {}) =>
        LET x == inst.loc.x
            y == inst.loc.y
            w == TopView(cell).outline[1]
            h == TopView(cell).outline[2]
            rh == inst.reflect_horiz
            rv == inst.reflect_vert
        IN  /\ (~rh /\ ~rv) => ret.res = Ok([p0 |-> <<x, y>>, p1 |-> <<x + w, y + h>>])
            /\ (rh /\ ~rv) => ret.res = Ok([p0 |-> <<x - w, y>>, p1 |-> <<x, y + h>>])
            /\ (~rh /\ rv) => ret.res = Ok([p0 |-> <<x, y - h>>, p1 |-> <<x + w, y>>])
            /\ (rh /\ rv) => ret.res = Ok([p0 |-> <<x - w, y - h>>, p1 |-> <<x, y>>])
            /\ \A i2 \in Instances :
                  LET r2 == Instance_boundbox(i2, cell) IN
                  (i2.loc = inst.loc) =>
                      /\ i2.reflect_horiz = rh =>
                            (r2.val.p0[1] = ret.res.val.p0[1] /\ r2.val.p1[1] = ret.res.val.p1[1])
                      /\ i2.reflect_vert = rv =>
                            (r2.val.p0[2] = ret.res.val.p0[2] /\ r2.val.p1[2] = ret.res.val.p1[2])

\* C2 witness: origin (1,-1), outline (4,6), reflected horizontally only
C2_Witness ==
    /\ ret.op = "boundbox"
    /\ inst.loc = Abs(1, 0 - 1) /\ inst.reflect_horiz /\ ~inst.reflect_vert
    /\ cell.abs # None /\ cell.abs.val.outline = <<4, 6>>
    /\ ret.res = Ok([p0 |-> <<0 - 3, 0 - 1>>, p1 |-> <<1, 5>>])

\* the calls that read a lock, and the lock each reads; boundbox reaches its
\* read only once the placement has resolved
LockOps == {"boundbox", "inst_boundbox_size", "fmt", "from"}
LockOf(op) == IF op = "from" THEN "rawcell" ELSE "cell"
ReachesRead(op) == op = "boundbox" => inst.loc.tag = "Abs"

\* C7: a call that needs shared access to a lock that is poisoned never aborts:
\* it returns an explicit failure (or, for Display, a placeholder string).
C7_LockFailureNeverAborts ==
    [][\A op \in LockOps :
          (ret'.op = op /\ ReachesRead(op) /\ LockOf(op) \in poisoned) =>
              /\ ~aborted'
              /\ ret'.res \in {Err(PoisonError), Ok("placeholder")}]_vars

-----------------------------------------------------------------------------
(* SpecConc: two Instances in reader threads and one writer thread share a
   Cell behind an RwLock *)

Readers == {1, 2}

\* reader 1 calls boundbox(), reader 2 calls boundbox_size()
ReaderInst(t) ==
    [inst_name |-> "i", cell |-> "cell", loc |-> Abs(t, 0 - t),
     reflect_horiz |-> (t = 1), reflect_vert |-> FALSE]

RdIdle == [pc |-> "idle"]

ConcFrame == UNCHANGED <<lastAdded, ret, layout, handle, chain, inst, poisoned, aborted>>

InitConc ==
    /\ cell \in InstCells
    /\ versions = {cell}
    /\ lock = [readers |-> {}, writer |-> FALSE]
    /\ rd = [t \in Readers |-> RdIdle]
    /\ wr = [pc |-> "idle", n |-> 0]
    /\ inst = [t \in Readers |-> ReaderInst(t)]
    /\ poisoned = {} /\ aborted = FALSE
    /\ ret = [op |-> "start"]
    /\ lastAdded = NoViews /\ layout = None /\ handle = None /\ chain = NoChain

\* self.cell.read(): granted while no writer holds the lock; `snap` and `peers`
\* record the Cell and the other readers at that moment
RdLock(t) ==
    /\ rd[t].pc = "idle"
    /\ ~lock.writer
    /\ lock' = HoldRead(lock, t)
    /\ rd' = [rd EXCEPT ![t] = [pc |-> "locked", snap |-> cell, peers |-> lock.readers]]
    /\ UNCHANGED <<cell, wr, versions>>
    /\ ConcFrame

\* cell.outline()?: a failure returns at once (the guard is dropped); a success
\* leaves a reference to the outline, read in the next step: outline.xmax()
RdXmax(t) ==
    /\ rd[t].pc = "locked"
    /\ LET o == Cell_outline(cell) IN
       IF o.tag = "Err"
       THEN /\ rd' = [rd EXCEPT ![t] = [@ EXCEPT !.pc = "done"] @@ [res |-> o]]
            /\ lock' = [lock EXCEPT !.readers = @ \ {t}]
       ELSE /\ rd' = [rd EXCEPT ![t] = [@ EXCEPT !.pc = "xread"] @@ [x |-> xmax(o.val)]]
            /\ UNCHANGED lock
    /\ UNCHANGED <<cell, wr, versions>>
    /\ ConcFrame

\* outline.ymax() through the same reference, then the result; the guard is
\* dropped as the call returns
RdYmax(t) ==
    /\ rd[t].pc = "xread"
    /\ LET y == ymax(Cell_outline(cell).val)
           r == IF t = 1 THEN Ok(Rect(inst[t], inst[t].loc, rd[t].x, y))
                ELSE Ok(<<rd[t].x, y>>)
       IN  rd' = [rd EXCEPT ![t] = [@ EXCEPT !.pc = "done"] @@ [res |-> r]]
    /\ lock' = [lock EXCEPT !.readers = @ \ {t}]
    /\ UNCHANGED <<cell, wr, versions>>
    /\ ConcFrame

\* the caller takes the result; the thread is ready for its next query
RdReturn(t) ==
    /\ rd[t].pc = "done"
    /\ rd' = [rd EXCEPT ![t] = RdIdle]
    /\ UNCHANGED <<cell, lock, wr, versions>>
    /\ ConcFrame

\* the writer takes exclusive access: granted with no reader and no writer
WrLock ==
    /\ wr.pc = "idle"
    /\ wr.n < MaxWrites
    /\ lock.readers = {} /\ ~lock.writer
    /\ lock' = [lock EXCEPT !.writer = TRUE]
    /\ wr' = [wr EXCEPT !.pc = "locked"]
    /\ UNCHANGED <<cell, rd, versions>>
    /\ ConcFrame

\* cell.add_view(view) through the write guard (&mut self)
WrAddView(view) ==
    /\ wr.pc = "locked"
    /\ cell' = add_view(cell, view)
    /\ versions' = versions \cup {cell'}
    /\ wr' = [wr EXCEPT !.pc = "written"]
    /\ UNCHANGED <<lock, rd>>
    /\ ConcFrame

\* the write guard is dropped
WrUnlock ==
    /\ wr.pc = "written"
    /\ lock' = [lock EXCEPT !.writer = FALSE]
    /\ wr' = [pc |-> "idle", n |-> wr.n + 1]
    /\ UNCHANGED <<cell, rd, versions>>
    /\ ConcFrame

NextConc ==
    \/ \E t \in Readers : RdLock(t)
    \/ \E t \in Readers : RdXmax(t)
    \/ \E t \in Readers : RdYmax(t)
    \/ \E t \in Readers : RdReturn(t)
    \/ WrLock
    \/ \E view \in InstViews : WrAddView(view)
    \/ WrUnlock

SpecConc == InitConc /\ [][NextConc]_vars

\* what reader t's query returns on Cell c read as a whole
Query(t, c) ==
    LET o == IF c.abs # None THEN Ok(c.abs.val.outline)
             ELSE IF c.layout # None THEN Ok(c.layout.val.outline)
             ELSE Err(Validation)
    IN  IF o.tag = "Err" THEN o
        ELSE IF t = 1
             THEN Ok([p0 |-> <<inst[t].loc.x - o.val[1], inst[t].loc.y>>,
                      p1 |-> <<inst[t].loc.x, inst[t].loc.y + o.val[2]>>])
             ELSE Ok(o.val)

\* C8: readers may hold the Cell together, but add_view is serialized against
\* them: each query result is the result on one whole value the Cell has had
\* (the one at the moment the reader got access), never a mix of two.
C8_NoTornRead ==
    /\ ~(lock.writer /\ lock.readers # {})
    /\ \A t \in Readers :
          /\ rd[t].pc \in {"locked", "xread"} => cell = rd[t].snap
          /\ rd[t].pc = "done" =>
                /\ rd[t].snap \in versions
                /\ rd[t].res = Query(t, rd[t].snap)
                /\ rd[t].res \in {Query(t, c) : c \in versions}

\* C8 witness: after a view replacement, reader 1 has completed boundbox() on
\* the replaced Cell, having held the lock together with reader 2
C8_Witness ==
    /\ wr.n >= 1
    /\ Cardinality(versions) >= 2
    /\ rd[1].pc = "done" /\ rd[1].peers = {2}
    /\ rd[1].snap = cell
    /\ rd[1].res.tag = "Ok"
    /\ rd[2].pc = "xread"

====
